---- MODULE Spec2Model ----
(***************************************************************************)
(* Concurrent production and assembly of the zp_uic_sf_server pipeline.    *)
(*                                                                         *)
(* The repository holds two generations of the producer:                   *)
(*   "legacy"  : src/domain/production.py, whose MediaGenerator and        *)
(*               VoiceGenerator methods are wrapped by                     *)
(*               @async_retry(max_retries=3);                              *)
(*   "gateway" : src/src/domain/production.py, which is handed the         *)
(*               gateways of src/src/domain/gateways.py (OpenAITTS,        *)
(*               MockImageGen) and calls them directly; this is the        *)
(*               producer PipelineOrchestrator.execute runs before         *)
(*               VideoAssembler.assemble_video.                            *)
(* Both are modelled by the same actions; the variable `producer` says     *)
(* which one a behaviour is about.                                         *)
(*                                                                         *)
(* Durations are in tenths of a second, delays in seconds.                 *)
(***************************************************************************)
EXTENDS Integers, Sequences, FiniteSets, TLC

\* ------------------------------------------------------------------ bounds

\* most scenes of a Blueprint handed to the gateway producer
MaxScenes == 2
\* scene ids are drawn from 1..MaxSceneId
MaxSceneId == 3
\* the retry wrapper alone is checked for max_retries in 0..MaxRetriesArg
MaxRetriesArg == 4
\* ... and for delay in 1..MaxDelayArg
MaxDelayArg == 2
\* most assets of a manifest handed to assemble_video directly
MaxAssets == 3
\* most runs of PipelineOrchestrator.execute overlapping in the process
MaxRuns == 2

\* --------------------------------------------------------------- constants

\* async_retry(max_retries: int = 3, ...), and @async_retry(max_retries=3)
DefaultMaxRetries == 3
\* async_retry(..., delay: float = 2.0)
DefaultDelay == 2

VARIABLES
    producer,   \* "legacy" | "gateway" | "none" (the retry wrapper alone)
    retry,      \* the wrapper around each generation call, or NoRetry
    scenes,     \* blueprint.scenes: a sequence of scenes
    pc,         \* where the caller of produce_assets / execute stands
    call,       \* the generation calls: <<scene index, kind>> -> call state
    task,       \* the scene tasks (_process_scene), by scene index
    prod,       \* how produce_assets ended: "none" | "returned" | "raised"
    manifest,   \* the ProductionManifest's assets, once returned
    log,        \* the log entries emitted so far (a set)
    render,     \* the rendering worker (_render_sync)
    asm,        \* how assemble_video ended, and its VideoOutput
    exec,       \* how PipelineOrchestrator.execute ended
    runs,       \* overlapping runs of execute: run -> where it stands
    executors,  \* VideoAssembler.executor of each assembler created
    trace_id    \* LogAgent._trace_id (class attribute)

\* the state shared by overlapping runs
ovars == <<runs, executors, trace_id>>

vars == <<producer, retry, scenes, pc, call, task, prod, manifest, log,
          render, asm, exec, runs, executors, trace_id>>

\* ------------------------------------------------------------ values

NoRetry == [max_retries |-> -1, delay |-> 0]
NoExc == [kind |-> "None", at |-> 0]
NoAsset == [scene_id |-> 0]
\* _trace_id: str = "N/A"
NoTrace == 0

Kinds == {"image", "voice"}

\* `except Exception` catches these; CancelledError derives from
\* BaseException only.
ExceptionSubclasses == {"GenerationError", "OSError", "TypeError",
                        "ValueError", "RuntimeError"}

\* What a wrapped operation can raise: the generation services fail with a
\* generation error; the operation under the bare wrapper is any callable.
FailKinds(c) == IF c[1] = 0 THEN {"GenerationError", "OSError"}
                ELSE {"GenerationError"}

\* f"{scene.id:03d}" : zero-padded to three digits, longer when needed
Pad3(n) == IF n < 1000 THEN <<(n \div 100) % 10, (n \div 10) % 10, n % 10>>
           ELSE <<n>>

ImagePathMut(p, id) == <<"images", IF p = "legacy" THEN "scene_" ELSE "", "jpg">>
ImagePath(p, id) == <<"images", IF p = "legacy" THEN "scene_" ELSE "", Pad3(id), "jpg">>
AudioPath(p, id) == <<"audio", IF p = "legacy" THEN "scene_" ELSE "", Pad3(id), "mp3">>

Max(a, b) == IF a >= b THEN a ELSE b

\* The narration of scene `id` has WordsOf(id) words (the model's input):
\* "Hello world." and "This is AI." for scenes 1 and 2 of test_production_flow.
WordsOf(id) == id + 1

\* est_duration = max(3.0, len(narration.split()) * 0.5)
EstimatedDuration(words) == Max(30, words * 5)

Scene(id) == [id |-> id, words |-> WordsOf(id),
              estimated_duration |-> EstimatedDuration(WordsOf(id))]

\* What the voice call returns: VoiceGenerator max(2.0, words * 0.5),
\* OpenAITTS words * 0.5
VoiceDuration(p, words) == IF p = "legacy" THEN Max(20, words * 5) ELSE words * 5

\* ------------------------------------------------------------ the wrapper

IdleCall == [phase |-> "idle", attempt |-> 0, calls |-> 0, last |-> NoExc,
             raised |-> NoExc, sleeps |-> <<>>, ret |-> 0,
             fails |-> <<>>, invoked |-> <<>>]

\* wrapper(): `for attempt in range(max_retries)` entered, or, with an empty
\* range, `raise last_exception` with last_exception = None, a TypeError.
\* An unwrapped gateway method is simply invoked.
StartCall(r) ==
    IF r = NoRetry \/ r.max_retries > 0
    THEN [IdleCall EXCEPT !.phase = "call", !.calls = 1]
    ELSE [IdleCall EXCEPT !.phase = "err",
                          !.raised = [kind |-> "TypeError", at |-> 0]]

\* the output path a generation call is handed: str(img_path), str(aud_path)
Destination(c) ==
    IF c[2] = "voice" THEN AudioPath(producer, scenes[c[1]].id)
    ELSE ImagePath(producer, scenes[c[1]].id)

\* The arguments of a call: the scene's narration or visual prompt (told
\* apart by kind and scene id) and the output path; the operation under the
\* bare wrapper has arguments of its own.
Args(c) ==
    IF c[1] = 0 THEN [text |-> <<"op", 0>>, output_path |-> <<>>]
    ELSE [text |-> <<c[2], scenes[c[1]].id>>, output_path |-> Destination(c)]

\* `func(*args, **kwargs)`: every attempt is handed the wrapper's own
\* arguments
AttemptArgsMut(args, attempt) ==
    [args EXCEPT !.output_path = IF attempt = 0 THEN @ ELSE Append(@, attempt)]
AttemptArgs(args, attempt) == args

\* the operation is invoked (when the wrapper got as far): `invoked` is the
\* history of the arguments of its invocations (read by no action)
Invoke(cs, c) ==
    IF cs.phase = "call"
    THEN [cs EXCEPT !.invoked = Append(@, AttemptArgs(Args(c), cs.attempt))]
    ELSE cs

\* what a successful call returns
ReturnValue(c) ==
    IF c[1] = 0 THEN 1
    ELSE IF c[2] = "voice"
         THEN VoiceDuration(producer, scenes[c[1]].words)
         ELSE Destination(c)

\* `return await func(*args, **kwargs)`
OpReturn(c) ==
    /\ call[c].phase = "call"
    /\ call' = [call EXCEPT ![c].phase = "ok", ![c].ret = ReturnValue(c),
                            ![c].last = NoExc]
    /\ UNCHANGED ovars
    /\ UNCHANGED <<producer, retry, scenes, pc, task, prod, manifest, log,
                   render, asm, exec>>

\* the delay slept after the failure of 0-based attempt `attempt`
BackoffMut(d, attempt) == d
Backoff(d, attempt) == d * (attempt + 1)

\* which exception `raise last_exception` propagates
RaisedAfterMut(cs, e) == cs.fails[1]
RaisedAfter(cs, e) == e

\* `except Exception as e`: remember it, warn, sleep.  Without the wrapper
\* the failure propagates at once.  `fails` is the history of the failures
\* the operation has raised (a record of the run, read by no action).
OpFail(c, k) ==
    /\ call[c].phase = "call"
    /\ LET e == [kind |-> k, at |-> call[c].attempt + 1] IN
       IF retry = NoRetry
       THEN /\ call' = [call EXCEPT ![c].phase = "err", ![c].raised = e,
                                    ![c].fails = Append(@, e)]
            /\ log' = log
       ELSE /\ call' = [call EXCEPT
                  ![c].phase = "sleep",
                  ![c].last = e,
                  ![c].fails = Append(@, e),
                  ![c].sleeps = Append(@, Backoff(retry.delay, call[c].attempt))]
            /\ log' = log \cup {[tag |-> "retry", scene |-> 0]}
    /\ UNCHANGED ovars
    /\ UNCHANGED <<producer, retry, scenes, pc, task, prod, manifest,
                   render, asm, exec>>

\* is there another attempt after 0-based attempt `attempt`?
MoreAttemptsMut(attempt, m) == attempt < m
MoreAttempts(attempt, m) == attempt + 1 < m

\* the sleep is over: the next iteration of the loop, or, after the last
\* one, `raise last_exception`
Wake(c) ==
    /\ call[c].phase = "sleep"
    /\ IF MoreAttempts(call[c].attempt, retry.max_retries)
       THEN call' = [call EXCEPT ![c] = Invoke([@ EXCEPT !.phase = "call",
                                                         !.attempt = @ + 1,
                                                         !.calls = @ + 1], c)]
       ELSE call' = [call EXCEPT ![c].phase = "err",
                                 ![c].raised = RaisedAfter(call[c], call[c].last)]
    /\ UNCHANGED ovars
    /\ UNCHANGED <<producer, retry, scenes, pc, task, prod, manifest, log,
                   render, asm, exec>>

\* the wrapper alone is called
WrapperStart(c) ==
    /\ producer = "none"
    /\ call[c].phase = "idle"
    /\ call' = [call EXCEPT ![c] = Invoke(StartCall(retry), c)]
    /\ UNCHANGED ovars
    /\ UNCHANGED <<producer, retry, scenes, pc, task, prod, manifest, log,
                   render, asm, exec>>

\* ------------------------------------------------------------ scene tasks

SceneIdx == 1..Len(scenes)

IdleTask == [status |-> "pending", asset |-> NoAsset, exc |-> NoExc]

InFlight(cs) == cs.phase \in {"call", "sleep"}

\* asyncio.gather(voice, image) inside _process_scene has finished with
\* both results
BothDoneMut(i) == call[<<i, "image">>].phase = "ok"
BothDone(i) == \A k \in Kinds : call[<<i, k>>].phase = "ok"

\* AssetPath(scene_id=scene.id, image_path=..., audio_path=..., duration=duration)
AssetOfMut(i) ==
    [scene_id |-> scenes[i].id,
     image_path |-> ImagePath(producer, scenes[i].id),
     audio_path |-> AudioPath(producer, scenes[i].id),
     duration |-> scenes[i].estimated_duration]
AssetOf(i) ==
    [scene_id |-> scenes[i].id,
     image_path |-> ImagePath(producer, scenes[i].id),
     audio_path |-> AudioPath(producer, scenes[i].id),
     duration |-> call[<<i, "voice">>].ret]

\* _process_scene returns its AssetPath
SceneReturn(i) ==
    /\ pc = "producing"
    /\ task[i].status = "running"
    /\ BothDone(i)
    /\ task' = [task EXCEPT ![i].status = "ok", ![i].asset = AssetOf(i)]
    /\ UNCHANGED ovars
    /\ UNCHANGED <<producer, retry, scenes, pc, call, prod, manifest, log,
                   render, asm, exec>>

\* What the failure of scene task i does to the generation calls: the inner
\* gather propagates the first exception and cancels nothing, and the outer
\* gather(return_exceptions=True) leaves the sibling tasks alone.
OnSceneFailureMut(cl, i) ==
    [c \in DOMAIN cl |->
        IF c[1] # i /\ InFlight(cl[c]) THEN [cl[c] EXCEPT !.phase = "cancelled"]
        ELSE cl[c]]
OnSceneFailure(cl, i) == cl

\* logger.error(f"{scene_prefix} Failed: {e}"), where scene_prefix ends in
\* f"scene_{scene.id}": the entry carries the scene's id
SceneFailedEntryMut(id) == [tag |-> "scene_failed", scene |-> 0]
SceneFailedEntry(id) == [tag |-> "scene_failed", scene |-> id]

\* the inner gather raises the first exception of its two calls;
\* _process_scene logs it with the scene's id and re-raises it
SceneRaise(i, k) ==
    /\ pc = "producing"
    /\ task[i].status = "running"
    /\ call[<<i, k>>].phase \in {"err", "cancelled"}
    /\ task' = [task EXCEPT
          ![i].status = "failed",
          ![i].exc = IF call[<<i, k>>].phase = "cancelled"
                     THEN [kind |-> "CancelledError", at |-> 0]
                     ELSE call[<<i, k>>].raised]
    /\ call' = OnSceneFailure(call, i)
    /\ log' = log \cup {SceneFailedEntry(scenes[i].id)}
    /\ UNCHANGED ovars
    /\ UNCHANGED <<producer, retry, scenes, pc, prod, manifest,
                   render, asm, exec>>

\* ------------------------------------------------------------ the producer

\* `for scene in creative_bp.scenes:` reads the Blueprint's list; neither
\* the loop nor anything after it assigns to the Blueprint or its scenes
\* (the sort is on the local valid_assets)
IterateScenesMut(s) == <<>>
IterateScenes(s) == s

\* execute's phases before production, in the order of its statements
Upstream == <<"scout", "research", "creative">>

\* execute calls produce_assets (line 110) or assemble_video (line 121);
\* a producer or assembler called by somebody else is no phase of execute
EnterPhase(ex, phase) ==
    IF ex.status = "running"
    THEN [ex EXCEPT !.phases = Append(@, phase)]
    ELSE ex

\* produce_assets: one _process_scene per scene, all handed to gather
Dispatch ==
    /\ pc = "start"
    /\ scenes' = IterateScenes(scenes)
    /\ pc' = "producing"
    /\ task' = [i \in SceneIdx |-> [IdleTask EXCEPT !.status = "running"]]
    /\ call' = [c \in SceneIdx \X Kinds |-> Invoke(StartCall(retry), c)]
    /\ log' = log \cup {[tag |-> "produce_start", scene |-> 0]}
    /\ exec' = EnterPhase(exec, "production")
    /\ UNCHANGED ovars
    /\ UNCHANGED <<producer, retry, prod, manifest, render, asm>>

Terminal(t) == t.status \in {"ok", "failed"}

\* asyncio.gather(*tasks, return_exceptions=True)
ReturnExceptionsMut == FALSE
ReturnExceptions == TRUE

\* the outer gather is done
GatherDoneMut == \E i \in SceneIdx : Terminal(task[i])
GatherDone ==
    IF ReturnExceptions THEN \A i \in SceneIdx : Terminal(task[i])
    ELSE \/ \A i \in SceneIdx : Terminal(task[i])
         \/ \E i \in SceneIdx : task[i].status = "failed"

\* results, in the order of the tasks handed to gather
Results ==
    [i \in SceneIdx |->
        IF task[i].status = "failed"
        THEN [tag |-> "exc", kind |-> task[i].exc.kind, asset |-> NoAsset]
        ELSE [tag |-> "asset", kind |-> "None", asset |-> task[i].asset]]

\* isinstance(res, Exception)
IsExceptionMut(res) == FALSE
IsException(res) == res.tag = "exc" /\ res.kind \in ExceptionSubclasses

\* the loop over the results: exceptions are logged, the rest is kept
ValidAssetsMut(results) ==
    LET v == SelectSeq(results, LAMBDA r : ~IsException(r)) IN
    IF Len(results) > 1 THEN [j \in 1..(Len(v) - 1) |-> v[j].asset]
    ELSE [j \in 1..Len(v) |-> v[j].asset]
ValidAssets(results) ==
    LET v == SelectSeq(results, LAMBDA r : ~IsException(r)) IN
    [j \in 1..Len(v) |-> v[j].asset]

RECURSIVE Insert(_, _)
\* `a` put into the sorted sequence s after every element whose key is not
\* greater (list.sort is stable)
Insert(s, a) ==
    IF s = <<>> THEN <<a>>
    ELSE IF s[Len(s)].scene_id <= a.scene_id THEN Append(s, a)
    ELSE Append(Insert(SubSeq(s, 1, Len(s) - 1), a), s[Len(s)])

RECURSIVE SortRec(_)
SortRec(s) ==
    IF s = <<>> THEN <<>>
    ELSE Insert(SortRec(SubSeq(s, 1, Len(s) - 1)), s[Len(s)])

\* valid_assets.sort(key=lambda x: x.scene_id)
SortBySceneIdMut(s) == s
SortBySceneId(s) == SortRec(s)

\* a result that is no Exception and has no scene_id makes the sort's key
\* raise AttributeError
Sortable(s) == \A j \in 1..Len(s) : s[j] # NoAsset

\* ------------------------------------------------------------ the assembler

IdleRender == [state |-> "idle", idx |-> 0, clips |-> <<>>, skipped |-> {},
               encode |-> "none", file |-> "none", exc |-> "None"]
NoOutput == [duration |-> -1, file_path |-> "none"]
IdleAsm == [status |-> "none", exc |-> "None", output |-> NoOutput,
            submitted |-> FALSE]

\* What the services of execute's first phases meet in one run: the
\* scouting LLM call raises, answers without any list, or answers with a
\* list of which n items are topics; the research calls (search, LLM)
\* raise or return; the director's LLM call raises, answers with JSON the
\* parser rejects, or answers with n scenes.
NoServices == [scout |-> [kind |-> "none", n |-> 0],
               research |-> "none",
               direct |-> [kind |-> "none", n |-> 0, entries |-> <<>>]]

\* status, exc and output of one execute run; phases lists the phases it
\* has invoked, in order; blueprint says that creative_bp was assigned
IdleExec == [status |-> "none", exc |-> "None", output |-> NoOutput,
             phases |-> <<>>, blueprint |-> FALSE, services |-> NoServices]

\* raise ValueError("Empty asset list"): the empty-manifest error
EmptyManifestError == "ValueError"
\* raise RuntimeError("No valid clips created."): the assembly failure
AssemblyFailure == "RuntimeError"

\* `except Exception as e: ...; raise e` in assemble_video and in execute:
\* the error raised is the error caught
ReraiseMut(e) == "AIStudioError"
Reraise(e) == e

\* `if not manifest.assets:` in assemble_video
EmptyCheckMut(assets) == FALSE
EmptyCheck(assets) == assets = <<>>

\* assemble_video up to its first suspension: an empty manifest is logged
\* and raises ValueError("Empty asset list"), which execute logs and
\* re-raises; otherwise _render_sync is submitted to the executor.
\* The result is what becomes of <<pc, render, asm, exec, log>>.
AssembleEnter(assets, lg) ==
    IF EmptyCheck(assets)
    THEN [pc |-> "failed",
          render |-> render,
          asm |-> [IdleAsm EXCEPT !.status = "raised", !.exc = EmptyManifestError],
          exec |-> IF exec.status = "running"
                   THEN [EnterPhase(exec, "assembly") EXCEPT
                           !.status = "raised",
                           !.exc = Reraise(EmptyManifestError)]
                   ELSE exec,
          log |-> lg \cup {[tag |-> "assemble_start", scene |-> 0],
                           [tag |-> "assemble_empty", scene |-> 0],
                           [tag |-> "pipeline_failed", scene |-> 0]}]
    ELSE [pc |-> "assembling",
          render |-> [IdleRender EXCEPT !.state = "running", !.idx = 1],
          asm |-> [IdleAsm EXCEPT !.status = "running", !.submitted = TRUE],
          exec |-> EnterPhase(exec, "assembly"),
          log |-> lg \cup {[tag |-> "assemble_start", scene |-> 0]}]

\* gather has returned: partition, sort, build the manifest, return it.
\* PipelineOrchestrator.execute goes on with assemble_video in the same
\* step of the event loop; the legacy producer's caller stops here.
ProduceReturn ==
    /\ pc = "producing"
    /\ GatherDone
    /\ LET valid == ValidAssets(Results)
           failed == {i \in SceneIdx : IsException(Results[i])}
       IN
       IF \/ ~ReturnExceptions /\ \E i \in SceneIdx : task[i].status = "failed"
          \/ ~Sortable(valid)
       THEN /\ prod' = "raised"
            /\ manifest' = manifest
            /\ pc' = "failed"
            /\ log' = log \cup (IF producer = "gateway"
                                THEN {[tag |-> "pipeline_failed", scene |-> 0]}
                                ELSE {})
            /\ exec' = IF producer = "gateway"
                       THEN [exec EXCEPT
                               !.status = "raised",
                               !.exc = IF Sortable(valid)
                                       THEN task[CHOOSE i \in SceneIdx :
                                                   task[i].status = "failed"].exc.kind
                                       ELSE "AttributeError"]
                       ELSE exec
            /\ UNCHANGED <<render, asm>>
       ELSE LET assets == SortBySceneId(valid)
                lg == log \cup {[tag |-> "produce_complete", scene |-> 0]}
                          \cup (IF failed = {} THEN {}
                                ELSE {[tag |-> "task_failed", scene |-> 0]})
                nxt == AssembleEnter(assets, lg)
            IN
            /\ prod' = "returned"
            /\ manifest' = assets
            /\ IF producer = "gateway"
               THEN /\ pc' = nxt.pc
                    /\ render' = nxt.render
                    /\ asm' = nxt.asm
                    /\ exec' = nxt.exec
                    /\ log' = nxt.log
               ELSE /\ pc' = "produced"
                    /\ log' = lg
                    /\ UNCHANGED <<render, asm, exec>>
    /\ UNCHANGED ovars
    /\ UNCHANGED <<producer, retry, scenes, call, task>>

\* `clips.append(video_clip)`: the clip joins the end of the list
AppendClipMut(clips, id) == <<id>> \o clips
AppendClip(clips, id) == Append(clips, id)

\* `except Exception as e: ...; continue`: the asset is left out and the
\* loop goes on with the clips it has
SkipAssetMut(r, id) == [r EXCEPT !.idx = @ + 1, !.skipped = @ \cup {id},
                                !.clips = <<>>]
SkipAsset(r, id) == [r EXCEPT !.idx = @ + 1, !.skipped = @ \cup {id}]

\* _render_sync, one asset of the loop: the clip is built and appended, or
\* building it raises and the asset is skipped with a warning
Compose(ok) ==
    /\ render.state = "running"
    /\ render.idx <= Len(manifest)
    /\ LET a == manifest[render.idx] IN
       IF ok
       THEN /\ render' = [render EXCEPT !.idx = @ + 1,
                                        !.clips = AppendClip(@, a.scene_id)]
            /\ log' = log \cup {[tag |-> "prepared", scene |-> a.scene_id]}
       ELSE /\ render' = SkipAsset(render, a.scene_id)
            /\ log' = log \cup {[tag |-> "skipping", scene |-> a.scene_id]}
    /\ UNCHANGED ovars
    /\ UNCHANGED <<producer, retry, scenes, pc, call, task, prod, manifest,
                   asm, exec>>

\* `if not clips:` in _render_sync
NoClipsMut(clips) == FALSE
NoClips(clips) == clips = <<>>

\* _render_sync after the loop: no clip raises RuntimeError; otherwise the
\* clips are concatenated and written, which succeeds or raises midway
RenderFinish(encOk) ==
    /\ render.state = "running"
    /\ render.idx > Len(manifest)
    /\ IF NoClips(render.clips)
       THEN render' = [render EXCEPT !.state = "raised", !.exc = AssemblyFailure]
       ELSE IF encOk
            THEN render' = [render EXCEPT !.state = "done", !.encode = "ok",
                                          !.file = "written"]
            ELSE render' = [render EXCEPT !.state = "raised", !.encode = "failed",
                                          !.file = "partial", !.exc = "EncodeError"]
    /\ log' = IF NoClips(render.clips) THEN log
              ELSE log \cup {[tag |-> "concatenating", scene |-> 0]}
    /\ UNCHANGED ovars
    /\ UNCHANGED <<producer, retry, scenes, pc, call, task, prod, manifest,
                   asm, exec>>

RECURSIVE SumDurationMut(_)
SumDurationMut(s) ==
    IF Len(s) <= 1 THEN 0 ELSE s[1].duration + SumDurationMut(Tail(s))

RECURSIVE SumDuration(_)
\* sum(a.duration for a in manifest.assets)
SumDuration(s) ==
    IF s = <<>> THEN 0 ELSE s[1].duration + SumDuration(Tail(s))

\* the executor's future is done: assemble_video builds the VideoOutput and
\* execute returns it, or the error is logged and re-raised by both
AssembleReturn ==
    /\ pc = "assembling"
    /\ render.state \in {"done", "raised"}
    /\ IF render.state = "done"
       THEN LET out == [duration |-> SumDuration(manifest),
                        file_path |-> "final"] IN
            /\ asm' = [asm EXCEPT !.status = "returned", !.output = out]
            /\ exec' = IF exec.status = "running"
                       THEN [exec EXCEPT !.status = "returned", !.output = out]
                       ELSE exec
            /\ pc' = "done"
            /\ log' = log \cup {[tag |-> "render_complete", scene |-> 0],
                                [tag |-> "pipeline_finished", scene |-> 0]}
       ELSE /\ asm' = [asm EXCEPT !.status = "raised",
                                  !.exc = Reraise(render.exc)]
            /\ exec' = IF exec.status = "running"
                       THEN [exec EXCEPT !.status = "raised",
                                         !.exc = Reraise(Reraise(render.exc))]
                       ELSE exec
            /\ pc' = "failed"
            /\ log' = log \cup {[tag |-> "rendering_failed", scene |-> 0],
                                [tag |-> "pipeline_failed", scene |-> 0]}
    /\ UNCHANGED ovars
    /\ UNCHANGED <<producer, retry, scenes, call, task, prod, manifest, render>>

\* assemble_video called on its own, with a manifest its caller built
AssembleCall ==
    /\ pc = "assemble"
    /\ LET nxt == AssembleEnter(manifest, log) IN
       /\ pc' = nxt.pc
       /\ render' = nxt.render
       /\ asm' = nxt.asm
       /\ exec' = nxt.exec
       /\ log' = nxt.log
    /\ UNCHANGED ovars
    /\ UNCHANGED <<producer, retry, scenes, call, task, prod, manifest>>

\* ------------------------------------------------------------ overlapping runs

Runs == 1..MaxRuns

\* no run of execute is modelled through runs, executors
NoOverlap ==
    /\ runs = <<>>
    /\ executors = <<>>
    /\ trace_id = NoTrace

\* ThreadPoolExecutor(max_workers=1): the jobs submitted and not started,
\* and the job its one worker thread is running (0: none); submitted and
\* started are the histories of the jobs handed to run_in_executor and of
\* the jobs the worker thread began (read by no action)
NewExecutor == [queue |-> <<>>, running |-> 0,
                submitted |-> <<>>, started |-> <<>>]

\* LogAgent.start_trace(specific_id): cls._trace_id = specific_id; run r is
\* started with job id r
StartTrace(id) == id

\* LogAgent.info / LogAgent.error called by execute: _emit stamps the entry
\* with cls._trace_id as it is when the entry is emitted.  `entries` is the
\* history of the entries a run of execute has emitted; a coroutine that
\* calls assemble_video itself emits none.
Emit(run, current, messages) ==
    IF run.by = "execute"
    THEN [run EXCEPT !.entries =
            @ \o [j \in 1..Len(messages) |->
                    [message |-> messages[j], trace_id |-> current]]]
    ELSE run

\* execute from its call to its first suspension, inside produce_assets:
\* start_trace sets the class-level trace id, the services are built (a new
\* VideoAssembler, with an executor of its own, for this run), the
\* editorial and creative phases run synchronously and may raise, and the
\* scene tasks are dispatched.
ExecuteStart(r, ok) ==
    /\ runs[r].phase = "new"
    /\ trace_id' = StartTrace(r)
    /\ executors' = [executors EXCEPT ![r] = NewExecutor]
    /\ runs' = [runs EXCEPT
          ![r] = Emit([@ EXCEPT !.assembler = r,
                                !.phase = IF ok THEN "producing" ELSE "failed",
                                !.exc = IF ok THEN "None" ELSE "AIStudioError"],
                      StartTrace(r),
                      IF ok THEN <<"Pipeline Started", "Phase 3 Started">>
                      ELSE <<"Pipeline Started", "Pipeline Failed">>)]
    /\ UNCHANGED <<producer, retry, scenes, pc, call, task, prod, manifest,
                   log, render, asm, exec>>

\* the manifests a run's produce_assets returns: without or with assets
RunManifests == {<<>>, <<[scene_id |-> 1]>>}

\* produce_assets has returned the manifest; assemble_video rejects an empty
\* one and otherwise submits _render_sync to its assembler's executor
ProductionDone(r, assets) ==
    /\ runs[r].phase = "producing"
    /\ IF EmptyCheck(assets)
       THEN /\ runs' = [runs EXCEPT
                  ![r] = Emit([@ EXCEPT !.phase = "failed",
                                        !.exc = EmptyManifestError],
                              trace_id,
                              <<"Phase 3 Completed", "Phase 4 Started",
                                "Pipeline Failed">>)]
            /\ executors' = executors
       ELSE /\ runs' = [runs EXCEPT
                  ![r] = Emit([@ EXCEPT !.phase = "queued"], trace_id,
                              <<"Phase 3 Completed", "Phase 4 Started">>)]
            /\ executors' = [executors EXCEPT
                               ![runs[r].assembler].queue = Append(@, r),
                               ![runs[r].assembler].submitted = Append(@, r)]
    /\ UNCHANGED <<producer, retry, scenes, pc, call, task, prod, manifest,
                   log, render, asm, exec, trace_id>>

\* the worker thread of an executor takes the next job when it is free
WorkerFreeMut(ex) == TRUE
WorkerFree(ex) == ex.running = 0

\* the executor's worker thread starts _render_sync for the oldest job
WorkerStart(a) ==
    /\ a \in DOMAIN executors
    /\ WorkerFree(executors[a])
    /\ executors[a].queue # <<>>
    /\ LET r == Head(executors[a].queue) IN
       /\ executors' = [executors EXCEPT ![a].queue = Tail(@),
                                          ![a].running = r,
                                          ![a].started = Append(@, r)]
       /\ runs' = [runs EXCEPT ![r].phase = "rendering"]
    /\ UNCHANGED <<producer, retry, scenes, pc, call, task, prod, manifest,
                   log, render, asm, exec, trace_id>>

\* _render_sync returns or raises on the worker thread
WorkerFinish(a, ok) ==
    /\ a \in DOMAIN executors
    /\ executors[a].running # 0
    /\ LET r == executors[a].running IN
       /\ runs[r].phase = "rendering"
       /\ runs' = [runs EXCEPT ![r].phase = "rendered",
                               ![r].exc = IF ok THEN "None"
                                          ELSE AssemblyFailure]
    /\ executors' = [executors EXCEPT ![a].running = 0]
    /\ UNCHANGED <<producer, retry, scenes, pc, call, task, prod, manifest,
                   log, render, asm, exec, trace_id>>

\* the run resumes with the executor's result: execute returns the output
\* or re-raises the error
ExecuteEnd(r) ==
    /\ runs[r].phase = "rendered"
    /\ runs' = [runs EXCEPT
          ![r] = Emit([@ EXCEPT !.phase = IF runs[r].exc = "None" THEN "done"
                                          ELSE "failed"],
                      trace_id,
                      IF runs[r].exc = "None"
                      THEN <<"Pipeline Finished Successfully">>
                      ELSE <<"Pipeline Failed">>)]
    /\ UNCHANGED <<producer, retry, scenes, pc, call, task, prod, manifest,
                   log, render, asm, exec, executors, trace_id>>

\* ------------------------------------------------------------ specifications

RECURSIVE SeqsUpTo(_, _)
\* the sequences of at most n elements of S
SeqsUpTo(S, n) ==
    IF n = 0 THEN {<<>>}
    ELSE LET shorter == SeqsUpTo(S, n - 1) IN
         shorter \cup {Append(q, x) : q \in shorter, x \in S}

Unique(q) == \A a, b \in 1..Len(q) : a # b => q[a] # q[b]

\* The Blueprints handed to the gateway producer: at most MaxScenes scenes
\* with distinct ids, in any order (produce_assets takes any
\* CreativeBlueprint; the parser numbers the scenes 1..N in order).
Blueprints ==
    {[j \in 1..Len(q) |-> Scene(q[j])] :
        q \in {r \in SeqsUpTo(1..MaxSceneId, MaxScenes) : Unique(r)}}

\* The Blueprint the legacy producer is run on: test_production_flow's
\* SceneMock(1, ...), SceneMock(2, ...)
TestBlueprint == <<Scene(1), Scene(2)>>

\* The services of a run in which the phases before production returned
\* and the director's Blueprint is bp
GivenBlueprint(bp) ==
    [scout |-> [kind |-> "topics", n |-> 1],
     research |-> "ok",
     direct |-> [kind |-> "scenes", n |-> Len(bp),
                 entries |-> [j \in 1..Len(bp) |->
                                [id |-> 0, words |-> bp[j].words]]]]

Init ==
    /\ NoOverlap
    /\ producer \in {"legacy", "gateway"}
    /\ retry = IF producer = "legacy"
               THEN [max_retries |-> DefaultMaxRetries, delay |-> DefaultDelay]
               ELSE NoRetry
    /\ scenes \in IF producer = "legacy" THEN {TestBlueprint} ELSE Blueprints
    /\ pc = "start"
    /\ call = [c \in {} |-> IdleCall]
    /\ task = <<>>
    /\ prod = "none"
    /\ manifest = <<>>
    /\ log = {}
    /\ render = IdleRender
    /\ asm = IdleAsm
    /\ exec = IF producer = "gateway"
              THEN [IdleExec EXCEPT !.status = "running",
                                    !.phases = Upstream,
                                    !.blueprint = TRUE,
                                    !.services = GivenBlueprint(scenes)]
              ELSE IdleExec

Next ==
    \/ Dispatch
    \/ \E c \in DOMAIN call : OpReturn(c)
    \/ \E c \in DOMAIN call : \E k \in FailKinds(c) : OpFail(c, k)
    \/ \E c \in DOMAIN call : Wake(c)
    \/ \E i \in SceneIdx : SceneReturn(i)
    \/ \E i \in SceneIdx : \E k \in Kinds : SceneRaise(i, k)
    \/ ProduceReturn
    \/ \E ok \in BOOLEAN : Compose(ok)
    \/ \E encOk \in BOOLEAN : RenderFinish(encOk)
    \/ AssembleReturn

Spec == Init /\ [][Next]_vars

\* produce_assets alone, with what the claim about its termination
\* supposes: every generation call that was invoked returns or raises
\* (CallReturns), and the event loop runs what is ready: it ends a sleep
\* whose time is up and resumes a coroutine whose awaitable is done.
NextProduce ==
    \/ Dispatch
    \/ \E c \in DOMAIN call : OpReturn(c)
    \/ \E c \in DOMAIN call : \E k \in FailKinds(c) : OpFail(c, k)
    \/ \E c \in DOMAIN call : Wake(c)
    \/ \E i \in SceneIdx : SceneReturn(i)
    \/ \E i \in SceneIdx : \E k \in Kinds : SceneRaise(i, k)
    \/ ProduceReturn

AllCalls == (1..MaxScenes) \X Kinds

CallReturns(c) ==
    /\ c \in DOMAIN call
    /\ \/ OpReturn(c)
       \/ \E k \in FailKinds(c) : OpFail(c, k)

SleepEnds(c) == c \in DOMAIN call /\ Wake(c)

SceneResumes(i) ==
    /\ i \in DOMAIN task
    /\ \/ SceneReturn(i)
       \/ \E k \in Kinds : SceneRaise(i, k)

SpecLive ==
    /\ Init
    /\ [][NextProduce]_vars
    /\ WF_vars(Dispatch)
    /\ \A c \in AllCalls : WF_vars(CallReturns(c))
    /\ \A c \in AllCalls : WF_vars(SleepEnds(c))
    /\ \A i \in 1..MaxScenes : WF_vars(SceneResumes(i))
    /\ WF_vars(ProduceReturn)

\* the retry wrapper alone, around any operation
TheOp == <<0, "op">>

InitRetry ==
    /\ NoOverlap
    /\ producer = "none"
    /\ retry \in [max_retries : 0..MaxRetriesArg, delay : 1..MaxDelayArg]
    /\ scenes = <<>>
    /\ pc = "wrapper"
    /\ call = [c \in {TheOp} |-> IdleCall]
    /\ task = <<>>
    /\ prod = "none"
    /\ manifest = <<>>
    /\ log = {}
    /\ render = IdleRender
    /\ asm = IdleAsm
    /\ exec = IdleExec

NextRetry ==
    \/ WrapperStart(TheOp)
    \/ OpReturn(TheOp)
    \/ \E k \in FailKinds(TheOp) : OpFail(TheOp, k)
    \/ Wake(TheOp)

SpecRetry == InitRetry /\ [][NextRetry]_vars

\* the durations an AssetPath is given here (3.0 s, 4.5 s, 2.0 s)
Durations == {30, 45, 20}

\* The manifests handed to assemble_video directly: ProductionManifest is a
\* plain dataclass, so its assets are any list of AssetPath; here at most
\* MaxAssets of them, of distinct scenes, in any order.
Manifests ==
    UNION {{[j \in 1..Len(q) |->
                [scene_id |-> q[j],
                 image_path |-> ImagePath("gateway", q[j]),
                 audio_path |-> AudioPath("gateway", q[j]),
                 duration |-> d[j]]] :
              d \in [1..Len(q) -> Durations]} :
           q \in {r \in SeqsUpTo(1..MaxSceneId, MaxAssets) : Unique(r)}}

InitAsm ==
    /\ NoOverlap
    /\ producer = "none"
    /\ retry = NoRetry
    /\ scenes = <<>>
    /\ pc = "assemble"
    /\ call = [c \in {} |-> IdleCall]
    /\ task = <<>>
    /\ prod = "none"
    /\ manifest \in Manifests
    /\ log = {}
    /\ render = IdleRender
    /\ asm = IdleAsm
    /\ exec = IdleExec

NextAsm ==
    \/ AssembleCall
    \/ \E ok \in BOOLEAN : Compose(ok)
    \/ \E encOk \in BOOLEAN : RenderFinish(encOk)
    \/ AssembleReturn

SpecAsm == InitAsm /\ [][NextAsm]_vars

\* several runs of execute in one process (one event loop)
InitOverlap ==
    /\ producer = "none"
    /\ retry = NoRetry
    /\ scenes = <<>>
    /\ pc = "overlap"
    /\ call = [c \in {} |-> IdleCall]
    /\ task = <<>>
    /\ prod = "none"
    /\ manifest = <<>>
    /\ log = {}
    /\ render = IdleRender
    /\ asm = IdleAsm
    /\ exec = IdleExec
    /\ runs = [r \in Runs |-> [phase |-> "new", assembler |-> 0, exc |-> "None",
                               by |-> "execute", entries |-> <<>>]]
    /\ executors = [a \in Runs |-> NewExecutor]
    /\ trace_id = NoTrace

NextOverlap ==
    \/ \E r \in Runs : \E ok \in BOOLEAN : ExecuteStart(r, ok)
    \/ \E r \in Runs : \E assets \in RunManifests : ProductionDone(r, assets)
    \/ \E a \in Runs : WorkerStart(a)
    \/ \E a \in Runs : \E ok \in BOOLEAN : WorkerFinish(a, ok)
    \/ \E r \in Runs : ExecuteEnd(r)

SpecOverlap == InitOverlap /\ [][NextOverlap]_vars

\* how many coroutines call assemble_video of one VideoAssembler
MaxCallers == 3

Callers == 1..MaxCallers

\* One VideoAssembler, with its one executor, and MaxCallers coroutines on
\* one event loop that each hold a manifest and are about to call its
\* assemble_video
InitShared ==
    /\ producer = "none"
    /\ retry = NoRetry
    /\ scenes = <<>>
    /\ pc = "overlap"
    /\ call = [c \in {} |-> IdleCall]
    /\ task = <<>>
    /\ prod = "none"
    /\ manifest = <<>>
    /\ log = {}
    /\ render = IdleRender
    /\ asm = IdleAsm
    /\ exec = IdleExec
    /\ runs = [r \in Callers |-> [phase |-> "producing", assembler |-> 1,
                                  exc |-> "None", by |-> "caller",
                                  entries |-> <<>>]]
    /\ executors = [a \in {1} |-> NewExecutor]
    /\ trace_id = NoTrace

NextShared ==
    \/ \E r \in Callers : \E assets \in RunManifests : ProductionDone(r, assets)
    \/ WorkerStart(1)
    \/ \E ok \in BOOLEAN : WorkerFinish(1, ok)
    \/ \E r \in Callers : ExecuteEnd(r)

SpecShared == InitShared /\ [][NextShared]_vars

\* ------------------------------------------------------------ properties

\* produce_assets has ended, by returning or by raising
ProduceEnded == prod # "none"

N == Len(scenes)
BlueprintIds == {scenes[i].id : i \in SceneIdx}
ManifestIds == {manifest[m].scene_id : m \in 1..Len(manifest)}
Occurrences(id) == Cardinality({m \in 1..Len(manifest) : manifest[m].scene_id = id})
CallOk(i, k) == call[<<i, k>>].phase = "ok"
CallFailed(i, k) == call[<<i, k>>].phase = "err"
FirstTry(c) == call[c].phase = "ok" /\ call[c].calls = 1 /\ call[c].fails = <<>>

\* C1 (completion): when the Blueprint's scene ids are 1..N and every image
\* and voice call has succeeded on its first attempt, produce_assets has
\* returned a manifest of exactly N assets whose scene ids are 1, 2, ..., N
\* in this order, whatever the order in which the calls completed.
C1_Completion ==
    (/\ ProduceEnded
     /\ BlueprintIds = 1..N
     /\ \A c \in DOMAIN call : FirstTry(c))
    => /\ prod = "returned"
       /\ Len(manifest) = N
       /\ \A m \in 1..N : manifest[m].scene_id = m

\* every call succeeded at once, for a Blueprint that lists scene 2 first
C1_Witness ==
    /\ prod = "returned"
    /\ N >= 2
    /\ BlueprintIds = 1..N
    /\ scenes[1].id = 2
    /\ \A c \in DOMAIN call : FirstTry(c)

\* C2 (isolation): when a call of scene k has failed for good (it used up
\* its attempts) and every call of every other scene has succeeded,
\* produce_assets has returned normally and the manifest holds N-1 assets:
\* every scene id of the Blueprint but k's, each exactly once.
C2_Isolation ==
    \A k \in SceneIdx :
        (/\ ProduceEnded
         /\ \E kd \in Kinds : CallFailed(k, kd)
         /\ \A j \in SceneIdx \ {k} : \A kd \in Kinds : CallOk(j, kd))
        => /\ prod = "returned"
           /\ Len(manifest) = N - 1
           /\ Occurrences(scenes[k].id) = 0
           /\ \A j \in SceneIdx \ {k} : Occurrences(scenes[j].id) = 1

\* the first scene's image call failed on all three attempts of the legacy
\* producer, the other scene succeeded, and the manifest was returned
C2_Witness ==
    /\ prod = "returned"
    /\ N >= 2
    /\ CallFailed(1, "image")
    /\ call[<<1, "image">>].calls = DefaultMaxRetries
    /\ \A j \in SceneIdx \ {1} : \A kd \in Kinds : CallOk(j, kd)
    /\ Len(manifest) = N - 1

\* a step in which scene task i fails
Fails(i) == i \in DOMAIN task /\ task[i].status = "running"
            /\ task'[i].status = "failed"

\* C3 (no cross-cancellation): the step in which one scene task fails
\* leaves every call of every other scene as it was; no call is ever
\* cancelled; a scene task fails only when one of its own two calls has
\* failed; and once the manifest is returned a scene is in it exactly when
\* its own two calls succeeded.
C3_NoCrossCancel ==
    /\ [][\A i \in SceneIdx : Fails(i) =>
            \A c \in DOMAIN call : c[1] # i => call'[c] = call[c]]_vars
    /\ [](\A c \in DOMAIN call : call[c].phase # "cancelled")
    /\ [](\A i \in DOMAIN task :
            task[i].status = "failed" => \E kd \in Kinds : CallFailed(i, kd))
    /\ [](prod = "returned" =>
            \A i \in SceneIdx :
                (scenes[i].id \in ManifestIds) <=> (\A kd \in Kinds : CallOk(i, kd)))

\* one scene task has failed while a call of another scene is in flight
C3_Witness ==
    \E i, j \in DOMAIN task :
        /\ i # j
        /\ task[i].status = "failed"
        /\ task[j].status = "running"
        /\ \E kd \in Kinds : InFlight(call[<<j, kd>>])

\* C4 (order normalization): the returned manifest is sorted strictly
\* ascending by scene id, for every order of the Blueprint's scenes, every
\* completion order and every subset of scenes that succeeded.
C4_OrderNormalized ==
    prod = "returned" =>
        \A a, b \in 1..Len(manifest) :
            a < b => manifest[a].scene_id < manifest[b].scene_id

\* a Blueprint listing its scenes in descending id order, both produced
C4_Witness ==
    /\ prod = "returned"
    /\ Len(manifest) >= 2
    /\ scenes[1].id > scenes[2].id

\* C5 (scene atomicity): every asset of the manifest belongs to a scene of
\* the Blueprint whose image call and voice call have both succeeded, and
\* carries that scene's image path, audio path and the voice call's
\* duration; a scene one of whose calls failed for good is absent; no scene
\* id occurs twice.
C5_SceneAtomicity ==
    prod = "returned" =>
        /\ \A m \in 1..Len(manifest) :
              \E i \in SceneIdx :
                  /\ manifest[m].scene_id = scenes[i].id
                  /\ \A kd \in Kinds : CallOk(i, kd)
                  /\ manifest[m].image_path = call[<<i, "image">>].ret
                  /\ manifest[m].audio_path = AudioPath(producer, scenes[i].id)
                  /\ manifest[m].duration = call[<<i, "voice">>].ret
        /\ \A i \in SceneIdx :
              (\E kd \in Kinds : CallFailed(i, kd)) => scenes[i].id \notin ManifestIds
        /\ \A id \in ManifestIds : Occurrences(id) = 1

\* a scene whose image was generated and whose voice call failed for good
\* is absent from a manifest that holds another scene
C5_Witness ==
    /\ prod = "returned"
    /\ Len(manifest) >= 1
    /\ \E i \in SceneIdx :
          /\ CallOk(i, "image")
          /\ CallFailed(i, "voice")
          /\ scenes[i].id \notin ManifestIds

\* C6 (retry-success): a generation call of the producer whose service
\* fails on attempts 1..k-1 and succeeds on attempt k <= maxAttempts (3) is
\* invoked exactly k times and succeeds.  On the states: a call is given up
\* only after maxAttempts invocations (otherwise the success its service
\* holds ready for a later attempt is never asked for); a call that has
\* succeeded was invoked once more than it failed, and at most maxAttempts
\* times; and a scene both of whose calls succeeded is in the manifest.
C6_RetrySuccess ==
    /\ \A c \in DOMAIN call :
          /\ call[c].phase = "err" => call[c].calls = DefaultMaxRetries
          /\ call[c].phase = "ok" =>
                /\ call[c].calls = Len(call[c].fails) + 1
                /\ call[c].calls <= DefaultMaxRetries
    /\ prod = "returned" =>
          \A i \in SceneIdx :
              (\A kd \in Kinds : CallOk(i, kd)) => Occurrences(scenes[i].id) = 1

\* the same statement, of the producer whose generators are wrapped by
\* @async_retry(max_retries=3) only
C6_LegacyRetrySuccess == producer = "legacy" => C6_RetrySuccess

\* a legacy call that failed twice and then succeeded, its scene produced
C6_LegacyWitness ==
    /\ producer = "legacy"
    /\ prod = "returned"
    /\ \E i \in SceneIdx :
          /\ call[<<i, "image">>].phase = "ok"
          /\ call[<<i, "image">>].calls = DefaultMaxRetries
          /\ scenes[i].id \in ManifestIds

\* C7 (retry exhaustion): for max_retries = M >= 1 the wrapper never invokes
\* the operation more than M times; when every attempt has failed it has
\* invoked it exactly M times and raises the very failure the M-th attempt
\* produced, whatever the kinds of the failures.
C7_RetryExhaustion ==
    LET cs == call[TheOp]
        M == retry.max_retries
    IN
    M >= 1 =>
        /\ cs.calls <= M
        /\ Len(cs.fails) = M => cs.phase \in {"sleep", "err"}
        /\ cs.phase = "err" =>
              /\ cs.calls = M
              /\ Len(cs.fails) = M
              /\ cs.raised = cs.fails[M]
              /\ cs.raised.at = M
              /\ cs.raised.kind \in FailKinds(TheOp)

\* three or more attempts have all failed, the first with another kind of
\* failure than the last, and the wrapper has raised
C7_Witness ==
    /\ retry.max_retries >= 3
    /\ call[TheOp].phase = "err"
    /\ call[TheOp].fails[1].kind # call[TheOp].fails[retry.max_retries].kind

NoSceneSucceeded ==
    /\ N >= 1
    /\ \A i \in SceneIdx : i \in DOMAIN task /\ task[i].status = "failed"

\* C8 as stated (zero-success signalling): when no scene of the Blueprint
\* has succeeded, produce_assets does not return to its caller the way it
\* does after a partial success: it raises.
C8_ZeroSuccessSignalled ==
    (ProduceEnded /\ NoSceneSucceeded) => prod = "raised"

\* C8 as amended: when no scene has succeeded produce_assets returns
\* normally, as after a partial success, a manifest with no asset, while
\* after a partial success the manifest is not empty; the fatal condition is
\* raised by assemble_video, which rejects the empty manifest without
\* rendering, and execute re-raises it.
C8_ZeroSuccessReturnsEmpty ==
    /\ (ProduceEnded /\ NoSceneSucceeded) =>
          /\ prod = "returned"
          /\ manifest = <<>>
          /\ producer = "gateway" =>
                /\ asm.status = "raised"
                /\ asm.exc = EmptyManifestError
                /\ exec.status = "raised"
                /\ exec.exc = EmptyManifestError
    /\ (ProduceEnded /\ \E i \in SceneIdx : task[i].status = "ok") =>
          /\ prod = "returned"
          /\ manifest # <<>>

\* every scene task of a Blueprint of two scenes failed and the orchestrated
\* producer returned
C8_Witness ==
    /\ producer = "gateway"
    /\ N >= 2
    /\ NoSceneSucceeded
    /\ prod = "returned"

\* assemble_video has been called
AssembleCalled == asm.status # "none"

\* C9 (empty-manifest rejection): assemble_video called with a manifest
\* without assets has failed with the empty-manifest error, which is not
\* the assembly failure; nothing was submitted to the rendering worker, no
\* clip was composed, no encode was started and no file was written.
C9_EmptyManifestRejected ==
    (AssembleCalled /\ manifest = <<>>) =>
        /\ asm.status = "raised"
        /\ asm.exc = EmptyManifestError
        /\ asm.exc # AssemblyFailure
        /\ ~asm.submitted
        /\ render = IdleRender
        /\ asm.output = NoOutput

\* the producer handed an empty manifest of a Blueprint with scenes to
\* assemble_video
C9_Witness ==
    /\ AssembleCalled
    /\ manifest = <<>>
    /\ N >= 1
    /\ asm.status = "raised"

\* _render_sync is over and not one asset of a non-empty manifest composed
AllComposeFailed ==
    /\ manifest # <<>>
    /\ render.state \in {"done", "raised"}
    /\ render.skipped = ManifestIds

\* C10 (assembly failure): when composing every asset of a non-empty
\* manifest has failed, _render_sync has raised the assembly failure
\* without reaching the encode, no file was written, and assemble_video
\* returns no Output: once it has ended it has raised that same error, and
\* so has execute.
C10_AssemblyFailure ==
    AllComposeFailed =>
        /\ render.state = "raised"
        /\ render.exc = AssemblyFailure
        /\ render.encode = "none"
        /\ render.file = "none"
        /\ asm.status \in {"running", "raised"}
        /\ asm.output = NoOutput
        /\ exec.output = NoOutput
        /\ asm.status = "raised" =>
              /\ asm.exc = AssemblyFailure
              /\ exec.status = "raised"
              /\ exec.exc = AssemblyFailure

\* both assets of a manifest of two failed to compose and assemble_video
\* has raised
C10_Witness ==
    /\ AllComposeFailed
    /\ Len(manifest) >= 2
    /\ asm.status = "raised"

\* ------------------------------------------------------------ composition

\* how often scene id occurs among the clips of the timeline
ClipCount(id) == Cardinality({j \in 1..Len(render.clips) : render.clips[j] = id})

\* the assets the loop of _render_sync has been through
Visited == {j \in 1..Len(manifest) : j < render.idx}

\* C11 (composition skip): of the assets the rendering loop has been
\* through, the ones whose composition failed are skipped and every other one
\* has exactly one clip in the timeline (a failure costs no other asset its
\* clip); and when at least one asset was skipped and at least one composed,
\* the rendering raises nothing of its own (only a failing encode ends it
\* with an error) and assemble_video returns an output once the encode is
\* through.
C11_CompositionSkip ==
    /\ \A j \in Visited :
          LET id == manifest[j].scene_id IN
          \/ id \in render.skipped /\ ClipCount(id) = 0
          \/ id \notin render.skipped /\ ClipCount(id) = 1
    /\ Len(render.clips) + Cardinality(render.skipped) = Cardinality(Visited)
    /\ render.skipped # {} /\ render.clips # <<>> =>
          /\ render.state = "raised" => render.encode = "failed"
          /\ render.state = "done" /\ pc # "assembling" =>
                /\ pc = "done"
                /\ asm.status = "returned"
                /\ asm.output.file_path = "final"

C11_Witness ==
    /\ pc = "done"
    /\ asm.status = "returned"
    /\ Len(manifest) = 3
    /\ render.skipped = {manifest[1].scene_id}
    /\ Len(render.clips) = 2

\* the scene ids of the assets the loop has been through, in manifest order
VisitedIds == [j \in 1..Cardinality(Visited) |-> manifest[j].scene_id]

Survives(id) == id \notin render.skipped

ClipsAscending ==
    \A a, b \in 1..Len(render.clips) : a < b => render.clips[a] < render.clips[b]

ManifestAscending ==
    \A a, b \in 1..Len(manifest) : a < b => manifest[a].scene_id < manifest[b].scene_id

\* C12 as stated (playback order): whatever manifest assemble_video is
\* handed, the clips of the timeline are in ascending scene-id order.
C12_PlaybackOrder == ClipsAscending

\* C12 as amended: the clips of the timeline are the assets that composed,
\* in the order of the manifest's asset list (a skipped asset leaves the
\* relative order of the others as it was); they are in ascending scene-id
\* order when the manifest is.
C12_ManifestOrder ==
    /\ render.clips = SelectSeq(VisitedIds, Survives)
    /\ ManifestAscending => ClipsAscending

C12_Witness ==
    /\ render.state = "done"
    /\ Len(manifest) = 3
    /\ render.skipped = {manifest[2].scene_id}
    /\ render.clips = <<manifest[1].scene_id, manifest[3].scene_id>>
    /\ manifest[1].scene_id > manifest[3].scene_id

\* ------------------------------------------------------------ duration

RECURSIVE DurationOver(_)
\* the durations of the manifest's assets at the positions S, added up in
\* no particular order
DurationOver(S) ==
    IF S = {} THEN 0
    ELSE LET j == CHOOSE x \in S : TRUE IN
         manifest[j].duration + DurationOver(S \ {j})

\* C13 (duration aggregation): the output assemble_video returns has as its
\* duration the sum of the durations of all the manifest's assets, whatever
\* their order in the manifest: it is the same number as for the manifest
\* sorted by scene id, and 9.5 s whenever the durations are 3.0, 4.5 and
\* 2.0 s.
C13_DurationAggregation ==
    asm.status = "returned" =>
        /\ asm.output.duration = DurationOver(1..Len(manifest))
        /\ asm.output.duration = SumDuration(SortBySceneId(manifest))
        /\ (/\ Len(manifest) = 3
            /\ {manifest[j].duration : j \in 1..3} = {30, 45, 20})
              => asm.output.duration = 95

C13_Witness ==
    /\ asm.status = "returned"
    /\ Len(manifest) = 3
    /\ manifest[1].scene_id > manifest[2].scene_id
    /\ <<manifest[1].duration, manifest[2].duration, manifest[3].duration>>
          = <<45, 20, 30>>
    /\ asm.output.duration = 95

\* ------------------------------------------------------------ rendering slot

\* the runs whose _render_sync is executing
Rendering == {r \in Runs : runs[r].phase = "rendering"}

RECURSIVE SpokenDuration(_)
\* what the voice calls of the scenes at the positions S return, added up
SpokenDuration(S) ==
    IF S = {} THEN 0
    ELSE LET i == CHOOSE x \in S : TRUE IN
         VoiceDuration(producer, scenes[i].words) + SpokenDuration(S \ {i})

\* a run of execute in which the image call of scene k alone has failed, on
\* every attempt it was given, every call of every other scene succeeded at
\* once, and neither composing a clip nor encoding has failed
OnlyImageFails(k) ==
    /\ producer = "gateway"
    /\ N >= 2
    /\ k \in DOMAIN task
    /\ CallFailed(k, "image")
    /\ call[<<k, "image">>].calls = Len(call[<<k, "image">>].fails)
    /\ \A j \in SceneIdx \ {k} : \A kd \in Kinds :
          call[<<j, kd>>].phase = "call" \/ FirstTry(<<j, kd>>)
    /\ render.skipped = {}
    /\ render.encode # "failed"

MaxAttempts == IF retry = NoRetry THEN DefaultMaxRetries ELSE retry.max_retries

\* C16 (independent retry inside a scene task): a scene task has failed
\* only after one of its two calls has failed MaxAttempts times, and a call
\* that succeeded on its first attempt has been invoked exactly once,
\* however often the scene's other call was retried.
C16_IndependentRetry ==
    \A i \in DOMAIN task :
        /\ task[i].status = "failed" =>
              \E kd \in Kinds : Len(call[<<i, kd>>].fails) = MaxAttempts
        /\ \A kd \in Kinds :
              call[<<i, kd>>].phase = "ok" /\ call[<<i, kd>>].fails = <<>>
                  => call[<<i, kd>>].calls = 1

\* C17 (scene task waits for both calls): a scene task that has reached a
\* terminal state has neither of its two calls in flight (invoked, or
\* waiting out a backoff).
C17_WaitsForBoth ==
    \A i \in DOMAIN task :
        Terminal(task[i]) => \A kd \in Kinds : ~InFlight(call[<<i, kd>>])

\* ------------------------------------------------------------ fan-in

FailedTasks == {i \in DOMAIN task : task[i].status = "failed"}

\* C18 (fan-in barrier): produce_assets has not ended, and no manifest has
\* been built, while a scene task is not terminal; the step in which it
\* ends is taken with every scene task terminal; and the assets of the
\* manifest it returns and the failed scene tasks together are as many as
\* the Blueprint's scenes.
C18_FanInBarrier ==
    /\ ProduceEnded =>
          /\ DOMAIN task = SceneIdx
          /\ \A i \in SceneIdx : Terminal(task[i])
    /\ ~ProduceEnded => manifest = <<>>
    /\ prod = "returned" =>
          Len(manifest) + Cardinality(FailedTasks) = N

\* the manifest was returned with one scene in it and one scene failed,
\* whose other call is still in flight
C18_Witness ==
    /\ prod = "returned"
    /\ N = 2
    /\ Len(manifest) = 1
    /\ \E i \in FailedTasks : \E kd \in Kinds : InFlight(call[<<i, kd>>])

\* ------------------------------------------------------------ logging

\* a log entry with this tag carries scene id
Logged(tg, id) == \E l \in log : l.tag = tg /\ l.scene = id

\* C19 (no silent drop): once produce_assets has returned, every scene of
\* the Blueprint that is not in the manifest has a failure entry with its
\* scene id in the log; and every asset the rendering has skipped has a
\* skip entry with its scene id in the log from the moment it is skipped,
\* hence before assemble_video returns or raises.
C19_NoSilentDrop ==
    /\ prod = "returned" =>
          \A i \in SceneIdx :
              scenes[i].id \notin ManifestIds => Logged("scene_failed", scenes[i].id)
    /\ \A id \in render.skipped : Logged("skipping", id)

\* one scene is absent from the manifest, the asset of the other one was
\* skipped, and assemble_video has raised
C19_Witness ==
    /\ prod = "returned"
    /\ N = 2
    /\ Len(manifest) = 1
    /\ render.skipped = ManifestIds
    /\ asm.status = "raised"

\* ------------------------------------------------------------ fatal errors

\* C20 (fatal errors surface unchanged): when assemble_video was called
\* with an empty manifest, or its rendering ended with no clip composed,
\* assemble_video has raised that very error (the empty-manifest error, the
\* assembly failure) and so has execute, neither has an output, and the
\* run is not done.
C20_FatalSurface ==
    /\ AssembleCalled /\ manifest = <<>> =>
          /\ asm.status = "raised" /\ asm.exc = EmptyManifestError
          /\ asm.output = NoOutput
          /\ producer = "gateway" =>
                /\ exec.status = "raised" /\ exec.exc = EmptyManifestError
                /\ exec.output = NoOutput
                /\ pc = "failed"
    /\ render.state = "raised" /\ render.exc = AssemblyFailure
        /\ pc # "assembling" =>
          /\ asm.status = "raised" /\ asm.exc = AssemblyFailure
          /\ asm.output = NoOutput
          /\ producer = "gateway" =>
                /\ exec.status = "raised" /\ exec.exc = AssemblyFailure
                /\ exec.output = NoOutput
                /\ pc = "failed"

\* execute has re-raised the assembly failure of a rendering in which the
\* composition of both assets failed
C20_Witness ==
    /\ producer = "gateway"
    /\ Len(manifest) = 2
    /\ render.exc = AssemblyFailure
    /\ asm.exc = AssemblyFailure
    /\ exec.status = "raised"
    /\ exec.exc = AssemblyFailure

\* ------------------------------------------------------------ backoff

\* C21 (linear backoff): the k-th wait of the wrapper, taken after the k-th
\* failed attempt, is delay * k; an attempt is under way only when every
\* earlier attempt's wait has been taken; and attempt k+1 starts only in a
\* step that ends the wait taken after the k-th failure.
C21_LinearBackoff ==
    /\ [](\A k \in 1..Len(call[TheOp].sleeps) :
            call[TheOp].sleeps[k] = retry.delay * k)
    /\ [](call[TheOp].phase = "call" =>
            /\ Len(call[TheOp].sleeps) = call[TheOp].calls - 1
            /\ Len(call[TheOp].fails) = call[TheOp].calls - 1)
    /\ [][call[TheOp].calls >= 1 /\ call'[TheOp].calls = call[TheOp].calls + 1 =>
            /\ call[TheOp].phase = "sleep"
            /\ Len(call[TheOp].sleeps) = call[TheOp].calls
            /\ call[TheOp].sleeps[call[TheOp].calls]
                  = retry.delay * call[TheOp].calls]_vars

\* with delay 2 the fourth attempt is under way after waits of 2, 4 and 6
C21_Witness ==
    /\ retry.delay = 2
    /\ call[TheOp].phase = "call"
    /\ call[TheOp].calls = 4
    /\ call[TheOp].sleeps = <<2, 4, 6>>

\* C22 (waits only between attempts): when all M attempts have failed the
\* wrapper is not waiting but has raised, and it has taken exactly M - 1
\* waits.
C22_WaitsOnlyBetween ==
    LET cs == call[TheOp]
        M == retry.max_retries
    IN
    M >= 1 /\ Len(cs.fails) = M =>
        /\ cs.phase = "err"
        /\ Len(cs.sleeps) = M - 1

\* ------------------------------------------------------------ assets and paths

\* C23 (AssetPath duration source): the AssetPath of a scene task that has
\* succeeded has as its duration what that scene's voice call returned (the
\* spoken duration of the scene's narration), and the scene's own id, image
\* path and audio path; so has every asset of the manifest.
C23_DurationSource ==
    /\ \A i \in DOMAIN task :
          task[i].status = "ok" =>
              /\ call[<<i, "voice">>].phase = "ok"
              /\ task[i].asset.duration = call[<<i, "voice">>].ret
              /\ task[i].asset.duration = VoiceDuration(producer, scenes[i].words)
              /\ task[i].asset.scene_id = scenes[i].id
              /\ task[i].asset.image_path = call[<<i, "image">>].invoked[1].output_path
              /\ task[i].asset.audio_path = call[<<i, "voice">>].invoked[1].output_path
    /\ prod = "returned" =>
          \A j \in 1..Len(manifest) :
              \E i \in SceneIdx :
                  /\ task[i].status = "ok"
                  /\ manifest[j] = task[i].asset

\* a scene whose advisory estimate differs from what its voice call
\* returned is in the manifest with the voice call's value
C23_Witness ==
    /\ prod = "returned"
    /\ \E i \in SceneIdx : \E j \in 1..Len(manifest) :
          /\ manifest[j].scene_id = scenes[i].id
          /\ scenes[i].estimated_duration # call[<<i, "voice">>].ret
          /\ manifest[j].duration = call[<<i, "voice">>].ret

\* the output paths handed to the invocations of call c
Destinations(c) ==
    {call[c].invoked[j].output_path : j \in 1..Len(call[c].invoked)}

\* C24 (disjoint destinations): two different generation calls of a run of
\* produce_assets are never handed the same output path: the image path and
\* the audio path of a scene differ, and so do the paths of different
\* scenes.
C24_DisjointDestinations ==
    \A c, c2 \in DOMAIN call :
        c # c2 => Destinations(c) \cap Destinations(c2) = {}

\* the four calls of two scenes are running at the same time
C24_Witness ==
    /\ N = 2
    /\ DOMAIN call = SceneIdx \X Kinds
    /\ \A c \in DOMAIN call : call[c].phase = "call"

\* C25 (retry frame): the wrapper hands every attempt the arguments it was
\* called with: each invocation of a call has the arguments, and so the
\* output path, of the invocation before it, and there is one entry per
\* invocation.
C25_RetryFrame ==
    \A c \in DOMAIN call :
        /\ Len(call[c].invoked) = call[c].calls
        /\ \A j \in 1..(Len(call[c].invoked) - 1) :
              /\ call[c].invoked[j + 1].text = call[c].invoked[j].text
              /\ call[c].invoked[j + 1].output_path = call[c].invoked[j].output_path
        /\ call[c].invoked # <<>> => call[c].invoked[1] = Args(c)

\* an image call of the legacy producer has been invoked three times
C25_Witness ==
    /\ producer = "legacy"
    /\ \E i \in SceneIdx :
          /\ <<i, "image">> \in DOMAIN call
          /\ call[<<i, "image">>].calls = DefaultMaxRetries
          /\ Len(call[<<i, "image">>].invoked) = 3
          /\ call[<<i, "image">>].invoked[3].output_path
                = ImagePath("legacy", scenes[i].id)

\* ------------------------------------------------------------ frames

\* C26 (Blueprint frame): no step of a run of produce_assets changes the
\* Blueprint: its scene sequence, the order of the scenes and every field
\* of every scene stay as they were, whether scene tasks succeed or fail.
C26_BlueprintFrame == [][scenes' = scenes]_vars

\* the manifest was returned, sorted, for a Blueprint whose scenes are not
\* in ascending order of id and of which one scene failed
C26_Witness ==
    /\ prod = "returned"
    /\ N = 2
    /\ scenes[1].id > scenes[2].id
    /\ scenes = <<Scene(scenes[1].id), Scene(scenes[2].id)>>
    /\ Cardinality(FailedTasks) = 1
    /\ Len(manifest) = 1

\* the positions of the manifest's assets whose clips are in the timeline
Constituents == {j \in 1..Len(manifest) : ClipCount(manifest[j].scene_id) >= 1}

\* C27 (duration covers only constituents): the duration of the output
\* assemble_video returns is the sum of the durations of the assets whose
\* clips are in the timeline; skipped assets add nothing to it.
C27_ConstituentsOnly ==
    asm.status = "returned" => asm.output.duration = DurationOver(Constituents)

\* ------------------------------------------------------------ termination

\* C28 (producer termination): when every generation call that is invoked
\* returns or raises, produce_assets eventually returns a manifest, and no
\* call of a scene is ever invoked more than MaxAttempts times.
C28_ProducerTermination ==
    /\ <>(prod = "returned")
    /\ [](\A c \in DOMAIN call : call[c].calls <= MaxAttempts)

\* the manifest was returned after both calls of a scene of the legacy
\* producer had been invoked three times and the scene failed
C28_Witness ==
    /\ prod = "returned"
    /\ \E i \in FailedTasks :
          \A kd \in Kinds : call[<<i, kd>>].calls = DefaultMaxRetries


\* ------------------------------------------------------------ execute

\* how many topics the scouting answer is let to hold
MaxTopics == 3

\* what an LLM gateway method raises when its API call or its json.loads
\* fails: it logs the error and re-raises it
LLMFailure == "APIError"

\* scout_topics' LLM answer: the call raises; the answer holds no list (or
\* an empty one); the answer holds a list of which n items are dicts
ScoutOutcomes ==
    {[kind |-> "raises", n |-> 0], [kind |-> "no_list", n |-> 0]}
    \cup {[kind |-> "topics", n |-> k] : k \in 0..MaxTopics}

\* resolve: generate_text raises, or the ResearchResult is returned
ResearchOutcomes == {"raises", "ok"}

\* The n entries of the "scenes" list of an LLM answer in a run of
\* execute: what the parser reads of an entry is its narration (here its
\* number of words); an "id" the entry may carry is not read
SceneEntries(n) == [j \in 1..n |-> [id |-> 0, words |-> WordsOf(j)]]

\* create_blueprint's LLM answer: the call raises; the answer is JSON the
\* parser cannot read; the answer's "scenes" list holds n scenes
DirectOutcomes ==
    {[kind |-> "raises", n |-> 0, entries |-> <<>>],
     [kind |-> "malformed", n |-> 0, entries |-> <<>>]}
    \cup {[kind |-> "scenes", n |-> k, entries |-> SceneEntries(k)] :
            k \in 0..MaxScenes}

Services ==
    [scout : ScoutOutcomes, research : ResearchOutcomes, direct : DirectOutcomes]

\* TopicScout.scout_topics: the exception it raises ("None" when it
\* returns) and the length of the list of Topics it returns
ScoutTopics(s) ==
    CASE s.kind = "raises" -> [exc |-> Reraise(LLMFailure), topics |-> 0]
      [] s.kind = "no_list" -> [exc |-> Reraise("ValueError"), topics |-> 0]
      [] OTHER -> [exc |-> "None", topics |-> s.n]

\* `if not topics:` in execute
NoTopics(n) == n = 0

\* RISResolver.resolve: the exception it raises ("None" when it returns)
Resolve(r) == IF r = "raises" THEN Reraise(LLMFailure) ELSE "None"

\* `id=idx + 1` for idx, item in enumerate(scenes_data)
ParsedIdMut(idx) == idx
ParsedId(idx) == idx + 1

\* the CreativeScene built of the item at index idx (from 0)
ParsedScene(idx, item) ==
    [id |-> ParsedId(idx), words |-> item.words,
     estimated_duration |-> EstimatedDuration(item.words)]

\* _parse_response_to_blueprint: the item at index idx (from 0) of the
\* answer's scenes becomes the CreativeScene of id idx + 1, appended to the
\* Blueprint's scenes; any error is a ValueError
ParseResponse(d) ==
    IF d.kind = "malformed"
    THEN [exc |-> "ValueError", bp |-> <<>>]
    ELSE [exc |-> "None",
          bp |-> [j \in 1..Len(d.entries) |-> ParsedScene(j - 1, d.entries[j])]]

\* CreativeBlueprint declares topic_id, title and scenes; the attribute
\* total_scenes that create_blueprint and execute read does not exist
TotalScenesDefined == FALSE

\* DirectorEngine.create_blueprint: LLM call, parse, then the log line
\* that reads blueprint.total_scenes, all inside the try whose handler
\* logs and re-raises
CreateBlueprint(d) ==
    IF d.kind = "raises"
    THEN [exc |-> Reraise(LLMFailure), bp |-> <<>>]
    ELSE LET p == ParseResponse(d) IN
         IF p.exc # "None" THEN [exc |-> Reraise(p.exc), bp |-> <<>>]
         ELSE IF ~TotalScenesDefined
              THEN [exc |-> Reraise("AttributeError"), bp |-> <<>>]
              ELSE p

\* where execute is after a phase has raised: in its handler, which logs
\* "Pipeline Failed" and re-raises; the statement that would have come
\* next is not run
OnFailureMut(next) == next
OnFailure(next) == "failed"

\* Phase 1-1: scout_topics and the check of its result
Scout ==
    /\ pc = "scout"
    /\ LET ex == [exec EXCEPT !.phases = Append(@, "scout")]
           r == ScoutTopics(exec.services.scout)
           e == IF r.exc # "None" THEN r.exc
                ELSE IF NoTopics(r.topics) THEN "AIStudioError" ELSE "None"
       IN
       IF e # "None"
       THEN /\ pc' = OnFailure("research")
            /\ exec' = [ex EXCEPT !.status = "raised", !.exc = Reraise(e)]
            /\ log' = log \cup {[tag |-> "pipeline_failed", scene |-> 0]}
       ELSE /\ pc' = "research"
            /\ exec' = ex
            /\ log' = log
    /\ UNCHANGED ovars
    /\ UNCHANGED <<producer, retry, scenes, call, task, prod, manifest,
                   render, asm>>

\* Phase 1-2: resolve on the first topic
Research ==
    /\ pc = "research"
    /\ LET ex == [exec EXCEPT !.phases = Append(@, "research")]
           e == Resolve(exec.services.research)
       IN
       IF e # "None"
       THEN /\ pc' = OnFailure("creative")
            /\ exec' = [ex EXCEPT !.status = "raised", !.exc = Reraise(e)]
            /\ log' = log \cup {[tag |-> "pipeline_failed", scene |-> 0]}
       ELSE /\ pc' = "creative"
            /\ exec' = ex
            /\ log' = log
    /\ UNCHANGED ovars
    /\ UNCHANGED <<producer, retry, scenes, call, task, prod, manifest,
                   render, asm>>

\* Phase 2: create_blueprint; when it returns, creative_bp is assigned and
\* execute goes on to produce_assets
Direct ==
    /\ pc = "creative"
    /\ LET ex == [exec EXCEPT !.phases = Append(@, "creative")]
           r == CreateBlueprint(exec.services.direct)
       IN
       IF r.exc # "None"
       THEN /\ pc' = OnFailure("start")
            /\ exec' = [ex EXCEPT !.status = "raised", !.exc = Reraise(r.exc)]
            /\ log' = log \cup {[tag |-> "pipeline_failed", scene |-> 0]}
            /\ scenes' = scenes
       ELSE /\ pc' = "start"
            /\ exec' = [ex EXCEPT !.blueprint = TRUE]
            /\ log' = log
            /\ scenes' = r.bp
    /\ UNCHANGED ovars
    /\ UNCHANGED <<producer, retry, call, task, prod, manifest, render, asm>>

\* execute entered: the gateways and the services are built, nothing has
\* been invoked yet
InitExecute ==
    /\ NoOverlap
    /\ producer = "gateway"
    /\ retry = NoRetry
    /\ scenes = <<>>
    /\ pc = "scout"
    /\ call = [c \in {} |-> IdleCall]
    /\ task = <<>>
    /\ prod = "none"
    /\ manifest = <<>>
    /\ log = {}
    /\ render = IdleRender
    /\ asm = IdleAsm
    /\ exec \in {[IdleExec EXCEPT !.status = "running", !.services = s] :
                    s \in Services}

\* execute from its first statement, together with the producer and the
\* assembler run on a Blueprint that is given
InitPipeline == InitExecute \/ Init

NextExecute ==
    \/ Scout
    \/ Research
    \/ Direct
    \/ Next

SpecExecute == InitPipeline /\ [][NextExecute]_vars

\* how many words the narration of an entry of an LLM answer has at most
MaxWords == 2

\* The LLM answers handed to the parser: JSON it cannot read, or a "scenes"
\* list of at most MaxScenes entries, each with a narration and with
\* whatever "id" the LLM gave it (0: none)
Responses ==
    {[kind |-> "malformed", n |-> 0, entries |-> <<>>]}
    \cup {[kind |-> "scenes", n |-> Len(q), entries |-> q] :
            q \in SeqsUpTo([id : 0..MaxSceneId, words : 1..MaxWords],
                           MaxScenes)}

\* _parse_response_to_blueprint called on the answer: the Blueprint's
\* scenes, or the ValueError, logged
Parse ==
    /\ pc = "parse"
    /\ LET r == ParseResponse(exec.services.direct) IN
       IF r.exc # "None"
       THEN /\ pc' = "failed"
            /\ scenes' = scenes
            /\ log' = log \cup {[tag |-> "parse_failed", scene |-> 0]}
       ELSE /\ pc' = "parsed"
            /\ scenes' = r.bp
            /\ log' = log
    /\ UNCHANGED ovars
    /\ UNCHANGED <<producer, retry, call, task, prod, manifest, render, asm,
                   exec>>

\* the parser alone, on any answer
InitParse ==
    /\ NoOverlap
    /\ producer = "none"
    /\ retry = NoRetry
    /\ scenes = <<>>
    /\ pc = "parse"
    /\ call = [c \in {} |-> IdleCall]
    /\ task = <<>>
    /\ prod = "none"
    /\ manifest = <<>>
    /\ log = {}
    /\ render = IdleRender
    /\ asm = IdleAsm
    /\ exec \in {[IdleExec EXCEPT !.services.direct = d] : d \in Responses}

NextParse == Parse

SpecParse == InitParse /\ [][NextParse]_vars


\* ------------------------------------------------------------ the pipeline

IsPrefix(p, q) == Len(p) <= Len(q) /\ \A j \in 1..Len(p) : p[j] = q[j]

\* the phases of execute in the order of its statements
PhaseOrder == Upstream \o <<"production", "assembly">>

\* execute has invoked the phase
Invoked(phase) == \E j \in DOMAIN exec.phases : exec.phases[j] = phase

\* C29 (pipeline phase ordering): in one execute run the phases invoked
\* so far are an initial part of scouting, research, direction, production,
\* assembly, each at most once; produce_assets has been invoked only if
\* creative_bp was assigned, assemble_video only if produce_assets has
\* returned its manifest; and once execute has raised, no step invokes a
\* further phase.
C29_PhaseOrdering ==
    /\ [](/\ IsPrefix(exec.phases, PhaseOrder)
          /\ Invoked("production") => exec.blueprint
          /\ Invoked("assembly") => prod = "returned")
    /\ [][exec.status = "raised" => exec'.phases = exec.phases]_vars

\* scouting returned topics, research raised, and execute has raised
\* without invoking direction, production or assembly
C29_Witness ==
    /\ exec.status = "raised"
    /\ exec.exc = LLMFailure
    /\ exec.phases = <<"scout", "research">>
    /\ pc = "failed"
    /\ prod = "none"
    /\ asm.status = "none"

\* in this run of execute no external call has failed: scouting returned
\* at least one topic, research returned, the director's LLM answered with
\* at least one scene, and no image, voice, composition or encode call has
\* failed
AllCallsSucceed ==
    /\ exec.status # "none"
    /\ exec.services.scout.kind = "topics" /\ exec.services.scout.n >= 1
    /\ exec.services.research = "ok"
    /\ exec.services.direct.kind = "scenes" /\ exec.services.direct.n >= 1
    /\ \A c \in DOMAIN call : call[c].fails = <<>> /\ call[c].phase # "err"
    /\ render.skipped = {}
    /\ render.encode # "failed"

\* C30 (happy-path completion): an execute run in which scouting returned
\* at least one topic and no external call fails does not raise, and when
\* it has ended it has been through production and assembly and has
\* returned the Output of assemble_video.
C30_HappyPath ==
    AllCallsSucceed =>
        /\ exec.status # "raised"
        /\ pc = "done" =>
              /\ exec.status = "returned"
              /\ exec.phases = PhaseOrder
              /\ exec.output = asm.output
              /\ asm.output # NoOutput


\* ------------------------------------------------------------ classification

RenderingOn(a) ==
    {r \in DOMAIN runs : runs[r].assembler = a /\ runs[r].phase = "rendering"}

\* C32 (per-assembler serialization): of the concurrent assemble_video
\* calls of one VideoAssembler at most one has its _render_sync executing at
\* any time, it is the one the executor's worker thread holds, and the
\* renders are begun in the order in which they were submitted.
C32_PerAssemblerSerial ==
    \A a \in DOMAIN executors :
        /\ Cardinality(RenderingOn(a)) <= 1
        /\ RenderingOn(a) = {executors[a].running} \ {0}
        /\ IsPrefix(executors[a].started, executors[a].submitted)

\* one call's render is executing while two other calls of the same
\* assembler, submitted after it, wait in the executor's queue
C32_Witness ==
    /\ Len(executors[1].submitted) = 3
    /\ Len(executors[1].queue) = 2
    /\ RenderingOn(1) = {executors[1].submitted[1]}


\* ------------------------------------------------------------ trace identity

C34_AtLeastOnce ==
    LET cs == call[TheOp] IN
    cs.phase \in {"ok", "err"} =>
        /\ cs.calls >= 1
        /\ Len(cs.invoked) >= 1
        /\ cs.phase = "err" =>
              \E j \in 1..Len(cs.fails) : cs.raised = cs.fails[j]


\* ------------------------------------------------------------ scene ids

\* C35 (scene id assignment): the Blueprint parsed of an answer with N
\* scene entries has exactly N scenes; the scene at place j is built of the
\* j-th entry and has id j, whatever id the entry carried; so the ids are
\* 1..N, each once, and the Blueprint's order is the ascending order of
\* its ids.
C35_SceneIds ==
    pc = "parsed" =>
        LET entries == exec.services.direct.entries IN
        /\ Len(scenes) = Len(entries)
        /\ \A j \in 1..Len(scenes) :
              /\ scenes[j].id = j
              /\ scenes[j].words = entries[j].words
        /\ BlueprintIds = 1..Len(entries)
        /\ \A a, b \in 1..Len(scenes) : a < b => scenes[a].id < scenes[b].id

\* an answer of two entries that the LLM numbered 3 and 1, with different
\* narrations, has been parsed
C35_Witness ==
    /\ pc = "parsed"
    /\ Len(scenes) = 2
    /\ exec.services.direct.entries[1].id = 3
    /\ exec.services.direct.entries[2].id = 1
    /\ scenes[1].words # scenes[2].words

====
